---- MODULE Spec2Model ----
\* Model of the logfmt parser of std-logger (parser/src/lib.rs): the Parser
\* iterator (next, fill_buf, parse_line, create_line_error), its field
\* scanners and typed decoders, driven by a scripted byte source.
\*
\* Bytes are their numeric values.  A slice `&[u8]` is a sequence of bytes;
\* an Option is the empty sequence (None) or a one-element sequence (Some).
EXTENDS Integers, Sequences, FiniteSets

\* ---------------------------------------------------------------- bytes
TAB   == 9
NL    == 10
SP    == 32
QUOTE == 34
PLUS  == 43
MINUS == 45
DOT   == 46
COLON == 58
EQ    == 61
UPPER_T == 84
UPPER_Z == 90

None == <<>>
Some(x) == <<x>>

Min(a, b) == IF a <= b THEN a ELSE b

\* F applied to the value of `e`, which is evaluated once (a `let` binding
\* of the source).
With(e, F(_)) == CHOOSE y \in {F(x) : x \in {e}} : TRUE

\* input[from..to] with the 0-based, end-exclusive indices of the source.
Slice(s, from, to) == SubSeq(s, from + 1, to)

\* Number of bytes the scanning loops step over before they `break`: the
\* 0-based index of the first byte of `s` that is in `stop`, Len(s) if none.
RECURSIVE ScanUntil(_, _, _)
ScanUntil(s, stop, i) ==
    IF i >= Len(s) \/ s[i + 1] \in stop THEN i ELSE ScanUntil(s, stop, i + 1)

\* Same, counting from the end (`input.iter().rev()`), stopping at the first
\* byte that is NOT in `skip`.
RECURSIVE ScanBackWhile(_, _, _)
ScanBackWhile(s, skip, i) ==
    IF i >= Len(s) \/ s[Len(s) - i] \notin skip THEN i
    ELSE ScanBackWhile(s, skip, i + 1)

\* Same from the start, stopping at the first byte that is NOT in `skip`;
\* written without recursion, for runs of thousands of bytes.
ScanWhile(s, skip, i) ==
    LET stops == {j \in i..(Len(s) - 1) : s[j + 1] \notin skip}
    IN  IF stops = {} THEN IF i >= Len(s) THEN i ELSE Len(s)
        ELSE CHOOSE j \in stops : \A k \in stops : j <= k

\* ---------------------------------------------------------------- UTF-8
\* str::from_utf8: TRUE iff `s` is well-formed UTF-8.
IsCont(b) == b >= 128 /\ b <= 191

RECURSIVE Utf8ValidFrom(_, _)
Utf8ValidFrom(s, i) ==
    IF i > Len(s) THEN TRUE
    ELSE LET b == s[i]
             n == Len(s) - i
         IN  IF b < 128 THEN Utf8ValidFrom(s, i + 1)
             ELSE IF b >= 194 /\ b <= 223
             THEN n >= 1 /\ IsCont(s[i + 1]) /\ Utf8ValidFrom(s, i + 2)
             ELSE IF b >= 224 /\ b <= 239
             THEN /\ n >= 2
                  /\ IsCont(s[i + 1]) /\ IsCont(s[i + 2])
                  /\ (b = 224 => s[i + 1] >= 160)
                  /\ (b = 237 => s[i + 1] <= 159)
                  /\ Utf8ValidFrom(s, i + 3)
             ELSE IF b >= 240 /\ b <= 244
             THEN /\ n >= 3
                  /\ IsCont(s[i + 1]) /\ IsCont(s[i + 2]) /\ IsCont(s[i + 3])
                  /\ (b = 240 => s[i + 1] >= 144)
                  /\ (b = 244 => s[i + 1] <= 143)
                  /\ Utf8ValidFrom(s, i + 4)
             ELSE FALSE

from_utf8(s) == Utf8ValidFrom(s, 1)

\* ---------------------------------------------------------------- scanners
\* Returns a single line: `input` without its trailing newlines.
single_line(input) ==
    Slice(input, 0, Len(input) - ScanBackWhile(input, {NL}, 0))

\* Removes all spaces and tabs at the start of `input`, not new lines.
eat_space(input) ==
    Slice(input, ScanWhile(input, {SP, TAB}, 0), Len(input))

\* Removes all spaces and tabs at the end of `input`.
eat_space_end(input) ==
    Slice(input, 0, Len(input) - ScanBackWhile(input, {SP, TAB}, 0))

\* parse_key: `key=`.  tag "Ok" carries the remaining input and the key,
\* "Err" the error kind; "Panic" is the out-of-range slice `&input[1..]`
\* taken of the empty remainder when the input holds no `=`.
parse_key(input) ==
    LET i         == ScanUntil(input, {EQ}, 0)
        key_bytes == Slice(input, 0, i)
        rest      == Slice(input, i, Len(input))
    IN  IF Len(rest) < 1
        THEN [tag |-> "Panic", rest |-> <<>>, key |-> <<>>, kind |-> "None"]
        ELSE IF from_utf8(eat_space_end(key_bytes))
        THEN [tag |-> "Ok", rest |-> Slice(rest, 1, Len(rest)),
              key |-> eat_space_end(key_bytes), kind |-> "None"]
        ELSE [tag |-> "Err", rest |-> <<>>, key |-> <<>>,
              kind |-> "KeyInvalidUt8"]

\* The `while let` loop of parse_qouted_value: `i` is the 0-based index of
\* the byte the iterator yields next; the result is `i` when the loop ends.
RECURSIVE qouted_scan(_, _, _)
qouted_scan(input, i, qoute_count) ==
    IF i >= Len(input) THEN i
    ELSE LET b     == input[i + 1]
             count == IF b = QUOTE THEN qoute_count + 1 ELSE qoute_count
             nb    == IF i + 1 < Len(input) THEN Some(input[i + 2]) ELSE None
         IN  IF /\ b = QUOTE
                /\ (nb = Some(SP) \/ (nb = Some(NL) /\ count % 2 = 0))
             THEN i
             ELSE qouted_scan(input, i + 1, count)

parse_qouted_value(input) ==
    LET i == qouted_scan(input, 1, 1)
    IN  [rest  |-> IF i = Len(input) THEN <<>>
                   ELSE Slice(input, i + 1, Len(input)),
         value |-> Slice(input, 1, i)]

\* Parses a single value, expecting a space as value end.
parse_naked_value(input) ==
    LET i == ScanUntil(input, {SP}, 0)
    IN  [rest |-> Slice(input, i, Len(input)), value |-> Slice(input, 0, i)]

parse_value(input) ==
    LET in == eat_space(input)
    IN  IF in # <<>> /\ in[1] = QUOTE
        THEN parse_qouted_value(in)
        ELSE parse_naked_value(in)

\* ---------------------------------------------------------------- numbers
IsDigit(b) == b >= 48 /\ b <= 57

AllDigits(s) == s # <<>> /\ \A i \in 1..Len(s) : IsDigit(s[i])

\* The digits without leading zeros (at least one digit is kept): the
\* canonical text of a natural number, which stands for numbers wider than
\* 32-bit integers.
StripZeros(s) ==
    Slice(s, Min(ScanWhile(s, {48}, 0), Len(s) - 1), Len(s))

\* a <= b for canonical digit texts.
RECURSIVE LexLE(_, _, _)
LexLE(a, b, i) ==
    IF i > Len(a) THEN TRUE
    ELSE IF a[i] # b[i] THEN a[i] < b[i]
    ELSE LexLE(a, b, i + 1)

DigitsLE(a, b) == Len(a) < Len(b) \/ (Len(a) = Len(b) /\ LexLE(a, b, 1))

RECURSIVE DigitsVal(_)
DigitsVal(s) ==
    IF s = <<>> THEN 0
    ELSE 10 * DigitsVal(Slice(s, 0, Len(s) - 1)) + (s[Len(s)] - 48)

\* <T as FromStr>::from_str for the integer types: an optional sign (`+`, and
\* `-` for the signed types), then one or more digits, within the type's
\* range.  None on failure, else Some of [neg, digits] with canonical digits.
ParseInt(s, signed, max_pos, max_neg) ==
    LET has_sign == /\ Len(s) > 1
                    /\ (s[1] = PLUS \/ (signed /\ s[1] = MINUS))
        neg      == has_sign /\ s[1] = MINUS
        digits   == IF has_sign THEN Slice(s, 1, Len(s)) ELSE s
        canon    == StripZeros(digits)
    IN  IF ~AllDigits(digits) THEN None
        ELSE IF ~DigitsLE(canon, IF neg THEN max_neg ELSE max_pos) THEN None
        ELSE Some([neg |-> neg /\ canon # <<48>>, digits |-> canon])

I32_MAX == <<50, 49, 52, 55, 52, 56, 51, 54, 52, 55>>
I32_MIN == <<50, 49, 52, 55, 52, 56, 51, 54, 52, 56>>
U32_MAX == <<52, 50, 57, 52, 57, 54, 55, 50, 57, 53>>
I64_MAX == <<57, 50, 50, 51, 51, 55, 50, 48, 51, 54, 56, 53, 52, 55, 55, 53,
             56, 48, 55>>
I64_MIN == <<57, 50, 50, 51, 51, 55, 50, 48, 51, 54, 56, 53, 52, 55, 55, 53,
             56, 48, 56>>

parse_i32(s) == ParseInt(s, TRUE, I32_MAX, I32_MIN)
parse_u32(s) == ParseInt(s, FALSE, U32_MAX, <<48>>)
parse_i64(s) == ParseInt(s, TRUE, I64_MAX, I64_MIN)

\* The number a parsed integer stands for (used where it fits 32 bits).
IntVal(n) == IF n.neg THEN 0 - DigitsVal(n.digits) ELSE DigitsVal(n.digits)

\* Canonical text of a parsed integer: `-` and the digits.
IntText(n) == IF n.neg THEN <<MINUS>> \o n.digits ELSE n.digits

ToLower(b) == IF b >= 65 /\ b <= 90 THEN b + 32 ELSE b

eq_ignore_ascii_case(a, b) ==
    Len(a) = Len(b) /\ \A i \in 1..Len(a) : ToLower(a[i]) = ToLower(b[i])

TEXT_true     == <<116, 114, 117, 101>>
TEXT_false    == <<102, 97, 108, 115, 101>>
TEXT_inf      == <<105, 110, 102>>
TEXT_infinity == <<105, 110, 102, 105, 110, 105, 116, 121>>
TEXT_nan      == <<110, 97, 110>>

\* <f64 as FromStr>::from_str succeeds: Sign? (inf | infinity | nan | Number)
\* Number ::= (Digit+ | Digit+ '.' Digit* | Digit* '.' Digit+) Exp?
\* Exp ::= 'e' Sign? Digit+
IsExp(s) ==
    /\ Len(s) >= 2
    /\ ToLower(s[1]) = 101
    /\ LET t == IF s[2] \in {PLUS, MINUS} THEN Slice(s, 2, Len(s))
                ELSE Slice(s, 1, Len(s))
       IN  AllDigits(t)

IsNumber(s) ==
    LET a    == ScanWhile(s, 48..57, 0)
        r1   == Slice(s, a, Len(s))
        dot  == r1 # <<>> /\ r1[1] = DOT
        r2   == IF dot THEN Slice(r1, 1, Len(r1)) ELSE r1
        b    == ScanWhile(r2, 48..57, 0)
        r3   == Slice(r2, b, Len(r2))
    IN  /\ a + b >= 1
        /\ (r3 = <<>> \/ IsExp(r3))

parse_f64_ok(s) ==
    LET t == IF s # <<>> /\ s[1] \in {PLUS, MINUS} THEN Slice(s, 1, Len(s))
             ELSE s
    IN  \/ eq_ignore_ascii_case(t, TEXT_inf)
        \/ eq_ignore_ascii_case(t, TEXT_infinity)
        \/ eq_ignore_ascii_case(t, TEXT_nan)
        \/ IsNumber(t)

Value_from_str_float_first(value) ==
    IF value = TEXT_true \/ value = TEXT_false
    THEN [kind |-> "Bool", text |-> value]
    ELSE IF parse_f64_ok(value)
    THEN [kind |-> "Float", text |-> value]
    ELSE IF parse_i64(value) # None
    THEN [kind |-> "Int", text |-> IntText(parse_i64(value)[1])]
    ELSE [kind |-> "String", text |-> value]

\* Value::from_str: Bool, then Int, then Float, else String.  `text` is the
\* canonical text of the value: of an Int its sign and digits, of a Float
\* and of a String the text parsed.
Value_from_str(value) ==
    IF value = TEXT_true \/ value = TEXT_false
    THEN [kind |-> "Bool", text |-> value]
    ELSE IF parse_i64(value) # None
    THEN [kind |-> "Int", text |-> IntText(parse_i64(value)[1])]
    ELSE IF parse_f64_ok(value)
    THEN [kind |-> "Float", text |-> value]
    ELSE [kind |-> "String", text |-> value]

\* ---------------------------------------------------------------- decoders
\* libc::timegm on the broken-down time: the calendar fields are normalised
\* linearly (month carries into the year, day/hour/min/sec into the days),
\* proleptic Gregorian, UTC.  The offset in seconds from the Unix epoch is
\* days * 86400 + sod, kept as the pair because it is wider than 32 bits.
days_from_civil(y, m, d) ==
    LET yy  == IF m <= 2 THEN y - 1 ELSE y
        era == yy \div 400
        yoe == yy - era * 400
        mp  == IF m > 2 THEN m - 3 ELSE m + 9
        doy == (153 * mp + 2) \div 5 + d - 1
        doe == yoe * 365 + yoe \div 4 - yoe \div 100 + doy
    IN  era * 146097 + doe - 719468

timegm(tm) ==
    LET year  == tm.tm_year + 1900 + tm.tm_mon \div 12
        mon   == tm.tm_mon % 12
        secs  == tm.tm_hour * 3600 + tm.tm_min * 60 + tm.tm_sec
        days  == days_from_civil(year, mon + 1, 1) + (tm.tm_mday - 1)
    IN  [days |-> days + secs \div 86400, sod |-> secs % 86400]

\* Duration::new(secs, nanos): the second argument is a count of nanoseconds.
Duration_new(time_offset, nanos) ==
    [days |-> time_offset.days, sod |-> time_offset.sod, nanos |-> nanos]

\* parse_timestamp: `yyyy-mm-ddThh:mm:ss.nnnnnnZ`.  "Ok" carries the instant
\* as the duration since UNIX_EPOCH.  "Panic": a negative time offset cast
\* `as u64` is at least 2^63, and SystemTime + Duration overflows.
parse_timestamp(value) ==
    LET bad   == [tag |-> "Err", kind |-> "InvalidTimestamp", time |-> None]
        year  == parse_i32(Slice(value, 0, 4))
        month == parse_i32(Slice(value, 5, 7))
        day   == parse_i32(Slice(value, 8, 10))
        hour  == parse_i32(Slice(value, 11, 13))
        min   == parse_i32(Slice(value, 14, 16))
        sec   == parse_i32(Slice(value, 17, 19))
        nanos == parse_u32(Slice(value, 20, 26))
        tm    == [tm_sec  |-> IntVal(sec[1]),  tm_min  |-> IntVal(min[1]),
                  tm_hour |-> IntVal(hour[1]), tm_mday |-> IntVal(day[1]),
                  tm_mon  |-> IntVal(month[1]) - 1,
                  tm_year |-> IntVal(year[1]) - 1900]
        time_offset == timegm(tm)
    IN  IF \/ Len(value) # 27
           \/ value[5] # MINUS \/ value[8] # MINUS \/ value[11] # UPPER_T
           \/ value[14] # COLON \/ value[17] # COLON \/ value[20] # DOT
           \/ value[27] # UPPER_Z
        THEN bad
        ELSE IF ~from_utf8(value) THEN bad
        ELSE IF \/ year = None \/ month = None \/ day = None \/ hour = None
                \/ min = None \/ sec = None \/ nanos = None
        THEN bad
        ELSE IF time_offset.days < 0
        THEN [tag |-> "Panic", kind |-> "None", time |-> None]
        ELSE [tag |-> "Ok", kind |-> "None",
              time |-> Some(Duration_new(time_offset, IntVal(nanos[1])))]

LOG_LEVEL_NAMES ==
    <<  <<79, 70, 70>>,            \* OFF
        <<69, 82, 82, 79, 82>>,    \* ERROR
        <<87, 65, 82, 78>>,        \* WARN
        <<73, 78, 70, 79>>,        \* INFO
        <<68, 69, 66, 85, 71>>,    \* DEBUG
        <<84, 82, 65, 67, 69>> >>  \* TRACE

LevelOfIndex == <<"Off", "Error", "Warn", "Info", "Debug", "Trace">>

\* parse_log_level, using Level::from_str: an ASCII-case-insensitive match
\* with one of the level names; OFF is not a Level.
parse_log_level(value) ==
    LET idx == {i \in 2..6 : eq_ignore_ascii_case(LOG_LEVEL_NAMES[i], value)}
    IN  IF from_utf8(value) /\ idx # {}
        THEN [tag |-> "Ok", kind |-> "None",
              level |-> LevelOfIndex[CHOOSE i \in idx : TRUE]]
        ELSE [tag |-> "Err", kind |-> "InvalidLevel", level |-> "Info"]

parse_string(value) ==
    IF from_utf8(value) THEN [tag |-> "Ok", kind |-> "None", str |-> value]
    ELSE [tag |-> "Err", kind |-> "InvalidValue", str |-> <<>>]

\* parse_file: `path/to/file:column`, split at the last `:`.
parse_file(value) ==
    LET bad    == [tag |-> "Err", kind |-> "InvalidFile", file |-> None]
        back   == ScanBackWhile(value, (0..255) \ {COLON}, 0)
        file   == Slice(value, 0, Len(value) - back - 1)
        column == parse_u32(Slice(value, Len(value) - back, Len(value)))
    IN  IF ~from_utf8(value) THEN bad
        ELSE IF back = Len(value) THEN bad
        ELSE IF column = None THEN bad
        ELSE [tag |-> "Ok", kind |-> "None",
              file |-> Some([file |-> file, line |-> IntText(column[1])])]

\* ---------------------------------------------------------------- records
KEY_ts     == <<116, 115>>
KEY_lvl    == <<108, 118, 108>>
KEY_msg    == <<109, 115, 103>>
KEY_target == <<116, 97, 114, 103, 101, 116>>
KEY_module == <<109, 111, 100, 117, 108, 101>>
KEY_file   == <<102, 105, 108, 101>>

\* Record::empty()
Record_empty ==
    [timestamp |-> None, level |-> "Info", msg |-> <<>>, target |-> <<>>,
     module |-> None, file |-> None, key_values |-> <<>>]

insert_keeps_first(map, key, value) ==
    [k \in DOMAIN map \cup {key} |-> IF k \in DOMAIN map THEN map[k] ELSE value]

\* HashMap::insert: the entry of `key` is replaced or added.
insert(map, key, value) ==
    [k \in DOMAIN map \cup {key} |-> IF k = key THEN value ELSE map[k]]

\* The `match key` of parse_line: decode `value` and assign the field of
\* `record` that `key` names.  "Err" carries the decoder's error kind.
assign_field(record, key, value) ==
    LET res(tag, kind, rec) == [tag |-> tag, kind |-> kind, record |-> rec]
        dec(d, rec) == IF d.tag = "Ok" THEN res("Ok", "None", rec)
                       ELSE res(d.tag, d.kind, record)
    IN  IF key = KEY_ts
        THEN dec(parse_timestamp(value),
                 [record EXCEPT !.timestamp = parse_timestamp(value).time])
        ELSE IF key = KEY_lvl
        THEN dec(parse_log_level(value),
                 [record EXCEPT !.level = parse_log_level(value).level])
        ELSE IF key = KEY_msg
        THEN dec(parse_string(value), [record EXCEPT !.msg = value])
        ELSE IF key = KEY_target
        THEN dec(parse_string(value), [record EXCEPT !.target = value])
        ELSE IF key = KEY_module
        THEN dec(parse_string(value), [record EXCEPT !.module = Some(value)])
        ELSE IF key = KEY_file
        THEN dec(parse_file(value),
                 [record EXCEPT !.file = parse_file(value).file])
        ELSE dec(parse_string(value),
                 [record EXCEPT !.key_values =
                      insert(record.key_values, key, Value_from_str(value))])

\* ---------------------------------------------------------------- parser
create_line_error_without_line(p, kind) == [line |-> None, kind |-> kind]

\* Parser::create_line_error
create_line_error(p, kind) ==
    [line |-> Some(single_line(Slice(p.buf, p.parsed, Len(p.buf)))),
     kind |-> kind]

\* The loop of Parser::parse_line over the fields of one line.  The result
\* is Ok(Some(record)) ("Some"), Ok(None) ("None"), Err(err) ("Err") or a
\* panic; `parsed` is the value of self.parsed on return.
RECURSIVE parse_fields(_, _, _, _)
parse_fields(p, input0, record, record_is_empty) ==
    LET res(tag, n, err) ==
            [tag |-> tag, parsed |-> n, record |-> record, err |-> err]
        no_err == [line |-> None, kind |-> "None"]
        field(k, v) ==
            With(assign_field(record, k.key, v.value), LAMBDA a :
                IF a.tag = "Panic" THEN res("Panic", p.parsed, no_err)
                ELSE IF a.tag = "Err"
                THEN res("Err", p.parsed, create_line_error(p, a.kind))
                ELSE parse_fields(p, v.rest, a.record, FALSE))
        value(k) ==
            With(parse_value(k.rest), LAMBDA v :
                IF v.rest = <<>> /\ ~p.hit_eof
                THEN res("None", p.parsed, no_err)
                ELSE field(k, v))
        key(input) ==
            With(parse_key(input), LAMBDA k :
                IF k.tag = "Panic" THEN res("Panic", p.parsed, no_err)
                ELSE IF k.tag = "Err"
                THEN res("Err", p.parsed, create_line_error(p, k.kind))
                ELSE IF k.rest = <<>> THEN res("None", p.parsed, no_err)
                ELSE value(k))
    IN  With(eat_space(input0), LAMBDA input :
            IF input = <<>> \/ input[1] = NL
            THEN res(IF record_is_empty THEN "None" ELSE "Some",
                     (Len(p.buf) - Len(input))
                         + (IF input = <<>> THEN 0 ELSE 1),
                     no_err)
            ELSE key(input))

parse_line_record_not_empty(p) ==
    parse_fields(p, Slice(p.buf, p.parsed, Len(p.buf)), Record_empty, FALSE)

parse_line_incomplete_at_eof(p) ==
    parse_fields([p EXCEPT !.hit_eof = FALSE],
                 Slice(p.buf, p.parsed, Len(p.buf)), Record_empty, TRUE)

parse_line_consumes_incomplete(p) ==
    With(parse_fields(p, Slice(p.buf, p.parsed, Len(p.buf)), Record_empty,
                      TRUE),
         LAMBDA r : IF r.tag = "None" /\ r.parsed = p.parsed
                    THEN [r EXCEPT !.parsed = Len(p.buf)]
                    ELSE r)

\* Parser::parse_line
parse_line(p) ==
    parse_fields(p, Slice(p.buf, p.parsed, Len(p.buf)), Record_empty, TRUE)

\* ---------------------------------------------------------------- reader
\* The byte source (R: Read): `stream` holds the bytes it has not delivered
\* yet; `script` fixes the outcome of its next reads, each an I/O error or a
\* chunk of at most n bytes.  Once the script is used up a read delivers all
\* the bytes that are left, and 0 when none are.  `calls` counts the calls
\* of read, `zero_seen` records that a read has returned 0.
ReadErr     == [err |-> TRUE, n |-> 0]
ReadData(n) == [err |-> FALSE, n |-> n]

read(reader, space) ==
    LET scripted == reader.script # <<>>
        want     == IF scripted THEN Head(reader.script).n
                    ELSE Len(reader.stream)
        n        == Min(Min(want, Len(reader.stream)), space)
        called   == [reader EXCEPT !.calls = @ + 1,
                         !.script = IF scripted THEN Tail(@) ELSE @]
    IN  IF scripted /\ Head(reader.script).err
        THEN [ok |-> FALSE, data |-> <<>>, reader |-> called]
        ELSE [ok |-> TRUE, data |-> Slice(reader.stream, 0, n),
              reader |-> [called EXCEPT
                  !.stream = Slice(@, n, Len(@)),
                  !.zero_seen = @ \/ n = 0]]

\* Vec::with_capacity(4096)
INITIAL_CAPACITY == 4096

\* fill_buf with a failed read that also sets hit_eof, as an implementation
\* that treated the failure as the end of the stream would.
fill_buf_eof_on_error(p) ==
    LET drained  == Slice(p.buf, p.parsed, Len(p.buf))
        capacity == IF Len(drained) = p.capacity THEN 2 * p.capacity
                    ELSE p.capacity
        r        == read(p.reader, capacity - Len(drained))
        q        == [p EXCEPT !.parsed = 0, !.capacity = capacity,
                              !.reader = r.reader]
    IN  IF p.parsed > Len(p.buf) THEN [tag |-> "Panic", p |-> p]
        ELSE IF r.ok
        THEN [tag |-> "Ok",
              p |-> [q EXCEPT !.buf = drained \o r.data,
                              !.hit_eof = IF Len(r.data) = 0 THEN TRUE ELSE @]]
        ELSE [tag |-> "Err", p |-> [q EXCEPT !.buf = drained,
                                             !.hit_eof = TRUE]]

fill_buf_without_growth(p) ==
    LET drained  == Slice(p.buf, p.parsed, Len(p.buf))
        r        == read(p.reader, p.capacity - Len(drained))
        q        == [p EXCEPT !.parsed = 0, !.reader = r.reader]
    IN  IF p.parsed > Len(p.buf) THEN [tag |-> "Panic", p |-> p]
        ELSE IF r.ok
        THEN [tag |-> "Ok",
              p |-> [q EXCEPT !.buf = drained \o r.data,
                              !.hit_eof = IF Len(r.data) = 0 THEN TRUE ELSE @]]
        ELSE [tag |-> "Err", p |-> [q EXCEPT !.buf = drained]]

fill_buf_keeps_offset(p) ==
    LET drained  == Slice(p.buf, p.parsed, Len(p.buf))
        capacity == IF Len(drained) = p.capacity THEN 2 * p.capacity
                    ELSE p.capacity
        r        == read(p.reader, capacity - Len(drained))
        q        == [p EXCEPT !.capacity = capacity, !.reader = r.reader]
    IN  IF p.parsed > Len(p.buf) THEN [tag |-> "Panic", p |-> p]
        ELSE IF r.ok
        THEN [tag |-> "Ok",
              p |-> [q EXCEPT !.buf = drained \o r.data,
                              !.hit_eof = IF Len(r.data) = 0 THEN TRUE ELSE @]]
        ELSE [tag |-> "Err", p |-> [q EXCEPT !.buf = drained]]

\* Parser::fill_buf.  "Panic": drain(..parsed) of a range past the end.
fill_buf(p) ==
    LET drained  == Slice(p.buf, p.parsed, Len(p.buf))
        capacity == IF Len(drained) = p.capacity THEN 2 * p.capacity
                    ELSE p.capacity
        r        == read(p.reader, capacity - Len(drained))
        q        == [p EXCEPT !.parsed = 0, !.capacity = capacity,
                              !.reader = r.reader]
    IN  IF p.parsed > Len(p.buf) THEN [tag |-> "Panic", p |-> p]
        ELSE IF r.ok
        THEN [tag |-> "Ok",
              p |-> [q EXCEPT !.buf = drained \o r.data,
                              !.hit_eof = IF Len(r.data) = 0 THEN TRUE ELSE @]]
        ELSE [tag |-> "Err", p |-> [q EXCEPT !.buf = drained]]

\* ---------------------------------------------------------------- iterator
NoError == [line |-> None, kind |-> "None"]

ItemOk(record) == [tag |-> "Ok", record |-> record, err |-> NoError]
ItemErr(err)   == [tag |-> "Err", record |-> Record_empty, err |-> err]
ItemNone       == [tag |-> "None", record |-> Record_empty, err |-> NoError]
ItemPanic      == [tag |-> "Panic", record |-> Record_empty, err |-> NoError]

\* The Err arm of Parser::next: the offset is advanced by the length of the
\* line the error carries, by nothing when it carries none.
skip_error_line_and_newline(p, err) ==
    [p EXCEPT !.parsed = @ + (IF err.line = None THEN 0
                              ELSE Len(err.line[1]) + 1)]

skip_error_line_forgotten(p, err) == p

skip_error_line(p, err) ==
    [p EXCEPT !.parsed = @ + (IF err.line = None THEN 0
                              ELSE Len(err.line[1]))]

\* Iterator::next for Parser: the parser after the call and what the call
\* returned (Some(Ok), Some(Err), None) or that it panicked.
RECURSIVE next(_)
next(p) ==
    LET line(f) ==
            With(parse_line(f.p), LAMBDA r :
                LET q == [f.p EXCEPT !.parsed = r.parsed]
                IN  IF r.tag = "Panic" THEN [p |-> q, item |-> ItemPanic]
                    ELSE IF r.tag = "Some"
                    THEN [p |-> q, item |-> ItemOk(r.record)]
                    ELSE IF r.tag = "None" /\ f.p.hit_eof
                    THEN [p |-> q, item |-> ItemNone]
                    ELSE IF r.tag = "None"
                    THEN With([q EXCEPT !.needs_read = TRUE], next)
                    ELSE [p |-> skip_error_line(q, r.err),
                          item |-> ItemErr(r.err)])
    IN  With(IF p.needs_read THEN fill_buf(p) ELSE [tag |-> "Ok", p |-> p],
             LAMBDA f :
                IF f.tag = "Panic" THEN [p |-> f.p, item |-> ItemPanic]
                ELSE IF f.tag = "Err"
                THEN [p |-> f.p,
                      item |-> ItemErr([line |-> None, kind |-> "Io"])]
                ELSE line(f))

\* parse(reader)
parse(reader) ==
    [parsed |-> 0, reader |-> reader, buf |-> <<>>,
     capacity |-> INITIAL_CAPACITY, needs_read |-> TRUE, hit_eof |-> FALSE]

\* ---------------------------------------------------------------- logger
\* log::LevelFilter and log::Level as numbers: Off is 0, Error 1, Warn 2,
\* Info 3, Debug 4, Trace 5; a Level is never 0.
LevelFilter_Info  == 3
LevelFilter_Debug == 4
LevelFilter_Trace == 5

COMMA == 44

\* LevelFilter::from_str: an ASCII-case-insensitive match with one of the
\* level names, OFF included.
LevelFilter_from_str(s) ==
    LET idx == {i \in 1..6 : eq_ignore_ascii_case(LOG_LEVEL_NAMES[i], s)}
    IN  IF idx # {} THEN Some((CHOOSE i \in idx : TRUE) - 1) ELSE None

\* env::var: Ok with the value when the variable is set and its value is
\* valid Unicode, Err (None) when it is not set or is not valid Unicode.
env_var(e, name) ==
    IF e[name] # None /\ from_utf8(e[name][1]) THEN e[name] ELSE None

\* get_max_level
get_max_level(e) ==
    LET named(name) ==
            IF env_var(e, name) # None
            THEN LevelFilter_from_str(env_var(e, name)[1])
            ELSE None
    IN  IF named("LOG") # None THEN named("LOG")[1]
        ELSE IF named("LOG_LEVEL") # None THEN named("LOG_LEVEL")[1]
        ELSE IF env_var(e, "TRACE") # None THEN LevelFilter_Trace
        ELSE IF env_var(e, "DEBUG") # None THEN LevelFilter_Debug
        ELSE LevelFilter_Info

\* str::split(','): the pieces between the commas, at least one.
RECURSIVE split(_, _)
split(s, sep) ==
    With(ScanUntil(s, {sep}, 0), LAMBDA i :
        IF i = Len(s) THEN <<s>>
        ELSE <<Slice(s, 0, i)>> \o split(Slice(s, i + 1, Len(s)), sep))

\* Targets::All and Targets::Only(targets)
Targets_All == [all |-> TRUE, only |-> <<>>]
Targets_Only(targets) == [all |-> FALSE, only |-> targets]

\* get_log_targets
get_log_targets(e) ==
    IF env_var(e, "LOG_TARGET") # None /\ env_var(e, "LOG_TARGET")[1] # <<>>
    THEN Targets_Only(split(env_var(e, "LOG_TARGET")[1], COMMA))
    ELSE Targets_All

\* str::starts_with
starts_with(s, prefix) ==
    Len(prefix) <= Len(s) /\ Slice(s, 0, Len(prefix)) = prefix

\* request
REQUEST_TARGET == <<114, 101, 113, 117, 101, 115, 116>>

\* panic
TARGET_panic == <<112, 97, 110, 105, 99>>

should_log_requests_only(targets, target) ==
    IF target = REQUEST_TARGET THEN TRUE
    ELSE IF ~targets.all
    THEN \E i \in DOMAIN targets.only : starts_with(target, targets.only[i])
    ELSE TRUE

\* Targets::should_log
should_log(targets, target) ==
    IF target = REQUEST_TARGET \/ target = TARGET_panic THEN TRUE
    ELSE IF ~targets.all
    THEN \E i \in DOMAIN targets.only : starts_with(target, targets.only[i])
    ELSE TRUE

\* Logger::enabled
enabled(self, metadata) ==
    self.filter >= metadata.level /\ should_log(self.targets, metadata.target)

\* The Logger try_init builds from the environment.
try_init(e) == [filter |-> get_max_level(e), targets |-> get_log_targets(e)]

\* ---------------------------------------------------------------- output
\* format::record: the slices of the formatted record, `[LEVEL] target: msg`
\* and a newline, `[REQUEST]: msg` for a request.
format_record(record, debug) ==
    IF record.target = REQUEST_TARGET
    THEN <<<<91, 82, 69, 81, 85, 69, 83, 84, 93, 58, 32>>, record.msg, <<NL>>>>
    ELSE <<<<91>>, LOG_LEVEL_NAMES[record.level + 1], <<93, SP>>,
           record.target, <<COLON, SP>>, record.msg, <<NL>>>>

\* bufs.iter().map(|b| b.len()).sum()
RECURSIVE total_len(_)
total_len(bufs) ==
    IF bufs = <<>> THEN 0 ELSE Len(Head(bufs)) + total_len(Tail(bufs))

\* The bytes of the slices in order.
RECURSIVE concat(_)
concat(bufs) == IF bufs = <<>> THEN <<>> ELSE Head(bufs) \o concat(Tail(bufs))

\* What a call of write_vectored does: it fails, or accepts the first n
\* bytes of the slices.
WriteErr   == [ok |-> FALSE, n |-> 0]
WriteOk(n) == [ok |-> TRUE, n |-> n]

\* One call of Write::write_vectored on a destination, which is the sequence
\* of the calls made on it: who wrote (thread and number of its log call),
\* the bytes accepted, and whether the call returned Ok.
write_vectored(output, id, bufs, outcome) ==
    Append(output, [id |-> id, ok |-> outcome.ok,
                    bytes |-> Slice(concat(bufs), 0, outcome.n)])

write_once_completes(output, id, bufs, outcome) ==
    LET once == write_vectored(output, id, bufs, outcome)
        rest == <<Slice(concat(bufs), outcome.n, total_len(bufs))>>
    IN  IF outcome.ok /\ outcome.n # total_len(bufs)
        THEN [output |-> write_vectored(once, id, rest, WriteOk(Len(rest[1]))),
              ok |-> TRUE]
        ELSE [output |-> once, ok |-> outcome.ok]

\* write_once: one call of write_vectored; Ok when it accepted all the bytes,
\* Err when it failed or accepted fewer.
write_once(output, id, bufs, outcome) ==
    [output |-> write_vectored(output, id, bufs, outcome),
     ok |-> outcome.ok /\ outcome.n = total_len(bufs)]

\* ---------------------------------------------------------------- inputs
MaxLen   == 4
MaxErrs  == 1
MaxPulls == 4

\* ts="2021-02-23T13:15:48.624447Z" lvl="INFO" msg="hello" target="app"\n
ScenarioA ==
    <<116, 115, 61, 34, 50, 48, 50, 49, 45, 48, 50, 45, 50, 51, 84, 49, 51,
      58, 49, 53, 58, 52, 56, 46, 54, 50, 52, 52, 52, 55, 90, 34, 32, 108,
      118, 108, 61, 34, 73, 78, 70, 79, 34, 32, 109, 115, 103, 61, 34, 104,
      101, 108, 108, 111, 34, 32, 116, 97, 114, 103, 101, 116, 61, 34, 97,
      112, 112, 34, 10>>

\* foo=bar count=42 ratio=3.14 ok=true\n
ScenarioB ==
    <<102, 111, 111, 61, 98, 97, 114, 32, 99, 111, 117, 110, 116, 61, 52,
      50, 32, 114, 97, 116, 105, 111, 61, 51, 46, 49, 52, 32, 111, 107, 61,
      116, 114, 117, 101, 10>>

\* ok=true\nfoo=bar\n
ScenarioB2 ==
    <<111, 107, 61, 116, 114, 117, 101, 10, 102, 111, 111, 61, 98, 97, 114,
      10>>

\* bad=\nts="2021-02-23T13:15:48.624447Z" lvl="INFO" msg="x"\n
ScenarioD ==
    <<98, 97, 100, 61, 10, 116, 115, 61, 34, 50, 48, 50, 49, 45, 48, 50,
      45, 50, 51, 84, 49, 51, 58, 49, 53, 58, 52, 56, 46, 54, 50, 52, 52,
      52, 55, 90, 34, 32, 108, 118, 108, 61, 34, 73, 78, 70, 79, 34, 32,
      109, 115, 103, 61, 34, 120, 34, 10>>

\* msg="a"\n \nmsg="b"\n
ScenarioE ==
    <<109, 115, 103, 61, 34, 97, 34, 10, 32, 10, 109, 115, 103, 61, 34, 98,
      34, 10>>

\* lvl="bad"
LineBadLevel ==
    <<108, 118, 108, 61, 34, 98, 97, 100, 34>>

\* file="f"
LineBadFile ==
    <<102, 105, 108, 101, 61, 34, 102, 34>>

\* msg="x"
LineMsgX ==
    <<109, 115, 103, 61, 34, 120, 34>>

\* k="v" n="1"
LineKv ==
    <<107, 61, 34, 118, 34, 32, 110, 61, 34, 49, 34>>

\* ts="1970-01-01T00:00:01.000001Z"\n
ScenarioEpoch ==
    <<116, 115, 61, 34, 49, 57, 55, 48, 45, 48, 49, 45, 48, 49, 84, 48, 48,
      58, 48, 48, 58, 48, 49, 46, 48, 48, 48, 48, 48, 49, 90, 34, 10>>

\* ts="2021-02-23T13:15:48.624447Z" lvl="INFO" msg="x"
LineTs ==
    <<116, 115, 61, 34, 50, 48, 50, 49, 45, 48, 50, 45, 50, 51, 84, 49, 51,
      58, 49, 53, 58, 52, 56, 46, 54, 50, 52, 52, 52, 55, 90, 34, 32, 108,
      118, 108, 61, 34, 73, 78, 70, 79, 34, 32, 109, 115, 103, 61, 34, 120,
      34>>

\* bad
TEXT_bad ==
    <<98, 97, 100>>

\* ok
TEXT_ok ==
    <<111, 107>>

\* foo
TEXT_foo ==
    <<102, 111, 111>>

\* bar
TEXT_bar ==
    <<98, 97, 114>>

\* count
TEXT_count ==
    <<99, 111, 117, 110, 116>>

\* ratio
TEXT_ratio ==
    <<114, 97, 116, 105, 111>>

\* 42
TEXT_42 ==
    <<52, 50>>

\* 3.14
TEXT_3_14 ==
    <<51, 46, 49, 52>>

\* msg="a" msg="b"
LineDupMsg ==
    <<109, 115, 103, 61, 34, 97, 34, 32, 109, 115, 103, 61, 34, 98, 34>>

\* k="1" j="2" k="x"
LineDupKey ==
    <<107, 61, 34, 49, 34, 32, 106, 61, 34, 50, 34, 32, 107, 61, 34, 120,
      34>>

\* lvl="ERROR" lvl="WARN"
LineDupLvl ==
    <<108, 118, 108, 61, 34, 69, 82, 82, 79, 82, 34, 32, 108, 118, 108,
      61, 34, 87, 65, 82, 78, 34>>

\* k="1" msg="a" k="2" msg="b"
LineDupMixed ==
    <<107, 61, 34, 49, 34, 32, 109, 115, 103, 61, 34, 97, 34, 32, 107, 61,
      34, 50, 34, 32, 109, 115, 103, 61, 34, 98, 34>>

Line2(a, b) == a \o <<NL>> \o b \o <<NL>>

BadLines   == {LineBadLevel, LineBadFile}
GoodLines  == {LineMsgX, LineKv}
BlankLines == {<<SP>>, <<TAB, SP>>}
BareKeys   == {TEXT_bad, <<107>>}

\* Texts of values with the Value each is inferred as: the kind, and the
\* text of the value (of an Int its sign and digits).
ValueExamples ==
    { \* true
      [text |-> <<116, 114, 117, 101>>,
       kind |-> "Bool", canon |-> <<116, 114, 117, 101>>],
      \* false
      [text |-> <<102, 97, 108, 115, 101>>,
       kind |-> "Bool", canon |-> <<102, 97, 108, 115, 101>>],
      \* 42
      [text |-> <<52, 50>>,
       kind |-> "Int", canon |-> <<52, 50>>],
      \* -7
      [text |-> <<45, 55>>,
       kind |-> "Int", canon |-> <<45, 55>>],
      \* +5
      [text |-> <<43, 53>>,
       kind |-> "Int", canon |-> <<53>>],
      \* 007
      [text |-> <<48, 48, 55>>,
       kind |-> "Int", canon |-> <<55>>],
      \* 9223372036854775807
      [text |-> <<57, 50, 50, 51, 51, 55, 50, 48, 51, 54, 56, 53, 52, 55, 55, 53, 56, 48, 55>>,
       kind |-> "Int", canon |-> <<57, 50, 50, 51, 51, 55, 50, 48, 51, 54, 56, 53, 52, 55, 55, 53, 56, 48, 55>>],
      \* 9223372036854775808
      [text |-> <<57, 50, 50, 51, 51, 55, 50, 48, 51, 54, 56, 53, 52, 55, 55, 53, 56, 48, 56>>,
       kind |-> "Float", canon |-> <<57, 50, 50, 51, 51, 55, 50, 48, 51, 54, 56, 53, 52, 55, 55, 53, 56, 48, 56>>],
      \* 99999999999999999999
      [text |-> <<57, 57, 57, 57, 57, 57, 57, 57, 57, 57, 57, 57, 57, 57, 57, 57, 57, 57, 57, 57>>,
       kind |-> "Float", canon |-> <<57, 57, 57, 57, 57, 57, 57, 57, 57, 57, 57, 57, 57, 57, 57, 57, 57, 57, 57, 57>>],
      \* 3.14
      [text |-> <<51, 46, 49, 52>>,
       kind |-> "Float", canon |-> <<51, 46, 49, 52>>],
      \* -0.5
      [text |-> <<45, 48, 46, 53>>,
       kind |-> "Float", canon |-> <<45, 48, 46, 53>>],
      \* 5.
      [text |-> <<53, 46>>,
       kind |-> "Float", canon |-> <<53, 46>>],
      \* 1e5
      [text |-> <<49, 101, 53>>,
       kind |-> "Float", canon |-> <<49, 101, 53>>],
      \* inf
      [text |-> <<105, 110, 102>>,
       kind |-> "Float", canon |-> <<105, 110, 102>>],
      \* NaN
      [text |-> <<78, 97, 78>>,
       kind |-> "Float", canon |-> <<78, 97, 78>>],
      \* True
      [text |-> <<84, 114, 117, 101>>,
       kind |-> "String", canon |-> <<84, 114, 117, 101>>],
      \* abc
      [text |-> <<97, 98, 99>>,
       kind |-> "String", canon |-> <<97, 98, 99>>],
      \* (empty)
      [text |-> <<>>,
       kind |-> "String", canon |-> <<>>],
      \* -
      [text |-> <<45>>,
       kind |-> "String", canon |-> <<45>>],
      \* 1.2.3
      [text |-> <<49, 46, 50, 46, 51>>,
       kind |-> "String", canon |-> <<49, 46, 50, 46, 51>>],
      \* 0x10
      [text |-> <<48, 120, 49, 48>>,
       kind |-> "String", canon |-> <<48, 120, 49, 48>>],
      \* 1e
      [text |-> <<49, 101>>,
       kind |-> "String", canon |-> <<49, 101>>] }

\* v="text"
ValueLine(text) == <<118, EQ, QUOTE>> \o text \o <<QUOTE>>

\* lines that name a key more than once
DupLines == {LineDupMsg, LineDupKey, LineDupLvl, LineDupMixed}

\* k= and v, with as many spaces between them as the buffer first holds
LongLine ==
    <<107, EQ>> \o [i \in 1..INITIAL_CAPACITY |-> SP] \o <<118, SP, NL>>

\* foo=bar
LineFooBar ==
    <<102, 111, 111, 61, 98, 97, 114>>

\* k="v" n=1
LineKvNaked ==
    <<107, 61, 34, 118, 34, 32, 110, 61, 49>>

\* lines that end the stream without a newline
FinalLines == {LineFooBar, LineKvNaked, LineMsgX}

\* what follows the closing quote of a quoted value: a space, a newline, or
\* the end of the stream
QuotedEnds == {<<SP, NL>>, <<NL>>, <<>>}

\* msg="a "b" c=d"
LineInnerQuotes ==
    <<109, 115, 103, 61, 34, 97, 32, 34, 98, 34, 32, 99, 61, 100, 34>>

\* a "b" c=d
TEXT_inner_quotes ==
    <<97, 32, 34, 98, 34, 32, 99, 61, 100>>

\* ts="1969-12-31T23:59:59.000000Z"
LineTs1969 ==
    <<116, 115, 61, 34, 49, 57, 54, 57, 45, 49, 50, 45, 51, 49, 84, 50, 51, 58, 53, 57, 58, 53, 57, 46, 48, 48, 48, 48, 48, 48, 90, 34>>

\* ts="9999-12-31T23:59:59.000000Z"
LineTs9999 ==
    <<116, 115, 61, 34, 57, 57, 57, 57, 45, 49, 50, 45, 51, 49, 84, 50, 51, 58, 53, 57, 58, 53, 57, 46, 48, 48, 48, 48, 48, 48, 90, 34>>

\* two valid lines
GoodPairs == {Line2(a, b) : a \in GoodLines, b \in GoodLines}

\* a line that fails to decode, then a valid line
ErrorPairs == {Line2(a, b) : a \in BadLines, b \in GoodLines}

\* a blank line between two valid lines
BlankBetween ==
    {Line2(a, w) \o b \o <<NL>> : a \in GoodLines, w \in BlankLines,
                                  b \in GoodLines}

\* a line `key=` without a value, then a valid line
NoValuePairs ==
    {Line2(k \o <<EQ>>, b) : k \in BareKeys, b \in GoodLines \cup {LineTs}}

\* k = space newline quote and a byte that is never valid UTF-8
Alphabet == {107, EQ, SP, NL, QUOTE, 255}

RECURSIVE SeqsUpTo(_, _)
SeqsUpTo(S, n) ==
    IF n = 0 THEN {<<>>}
    ELSE With(SeqsUpTo(S, n - 1), LAMBDA shorter :
             shorter \cup {Append(s, b) :
                              s \in {t \in shorter : Len(t) = n - 1}, b \in S})

\* streams of spaces, tabs and newlines only
BlankOnly == SeqsUpTo({SP, TAB, NL}, MaxLen)

Streams ==
    SeqsUpTo(Alphabet, MaxLen)
        \cup {ScenarioA, ScenarioB, ScenarioB2, ScenarioD, ScenarioE,
              ScenarioEpoch}
        \cup ErrorPairs \cup BlankBetween \cup NoValuePairs \cup BlankOnly
        \cup {a \o <<NL>> : a \in DupLines} \cup GoodPairs \cup {LongLine}
        \cup FinalLines \cup {LineInnerQuotes \o <<NL>>}
        \cup {LineMsgX \o t : t \in QuotedEnds}
        \cup {LineTs1969 \o <<NL>>, LineTs9999 \o <<NL>>}
        \cup {ValueLine(e.text) \o <<NL>> : e \in ValueExamples}

Errs(n) == [i \in 1..n |-> ReadErr]

\* The scripts of a stream: delivered in one read or split into two reads at
\* a byte offset, with up to MaxErrs failing reads before or after the first.
ErrPlacements ==
    {e \in (0..MaxErrs) \X (0..MaxErrs) : e[1] + e[2] <= MaxErrs}

\* A stream longer than the buffer is delivered as the buffer takes it.
Scripts(stream) ==
    IF Len(stream) > INITIAL_CAPACITY THEN {<<>>}
    ELSE {Errs(e[1]) \o d \o Errs(e[2]) :
             e \in ErrPlacements,
             d \in {<<>>} \cup {<<ReadData(k)>> : k \in 1..(Len(stream) - 1)}}

NewReader(stream, script) ==
    [stream |-> stream, script |-> script, calls |-> 0, zero_seen |-> FALSE]

\* Values of the environment variables: not set (None) or set to a text; 255
\* is a value that is not valid Unicode.
LOG_Values ==
    {None, Some(<<116, 114, 97, 99, 101>>), Some(<<69, 82, 82, 79, 82>>), Some(<<111, 102, 102>>), Some(<<98, 111, 103, 117, 115>>), Some(<<255>>)}
        \* trace ERROR off bogus
LOG_LEVEL_Values ==
    {None, Some(<<68, 69, 66, 85, 71>>), Some(<<119, 97, 114, 110>>), Some(<<98, 111, 103, 117, 115>>)}
        \* DEBUG warn bogus
TRACE_Values == {None, Some(<<49>>), Some(<<>>), Some(<<255>>)}
DEBUG_Values == {None, Some(<<49>>), Some(<<255>>)}

\* my_crate
TEXT_my_crate ==
    <<109, 121, 95, 99, 114, 97, 116, 101>>

\* my_crate::module
TEXT_my_crate_module ==
    <<109, 121, 95, 99, 114, 97, 116, 101, 58, 58, 109, 111, 100, 117, 108, 101>>

\* other
TEXT_other ==
    <<111, 116, 104, 101, 114>>

\* unset, empty, `my_crate`, `my_crate,other`, not Unicode
LOG_TARGET_Values ==
    {None, Some(<<>>), Some(TEXT_my_crate),
     Some(TEXT_my_crate \o <<COMMA>> \o TEXT_other), Some(<<255>>)}

Envs ==
    [LOG : LOG_Values, LOG_LEVEL : LOG_LEVEL_Values, TRACE : TRACE_Values,
     DEBUG : DEBUG_Values, LOG_TARGET : LOG_TARGET_Values]

NoEnv ==
    [LOG |-> None, LOG_LEVEL |-> None, TRACE |-> None, DEBUG |-> None,
     LOG_TARGET |-> None]

\* The metadata of the records logged: a Level and a target.
Metadatas ==
    [level : 1..5,
     target : {REQUEST_TARGET, TARGET_panic, TEXT_my_crate_module, TEXT_other,
               TEXT_bad}]

\* The records the threads log: an Info request, an Error of target `other`
\* and a Debug of target `my_crate::module`.
LogRecords ==
    {[level |-> 3, target |-> REQUEST_TARGET, msg |-> <<114>>],
     [level |-> 1, target |-> TEXT_other, msg |-> <<101>>],
     [level |-> 4, target |-> TEXT_my_crate_module, msg |-> <<100>>]}

\* no variable set; LOG=trace with LOG_TARGET=my_crate; LOG=ERROR
WriterEnvs ==
    {NoEnv,
     [NoEnv EXCEPT !.LOG = Some(<<116, 114, 97, 99, 101>>), !.LOG_TARGET = Some(TEXT_my_crate)],
     [NoEnv EXCEPT !.LOG = Some(<<69, 82, 82, 79, 82>>)]}

Threads == {1, 2}

MaxLogs == 3

\* What write_vectored may return for slices of `total` bytes: an error, or
\* that it accepted none, all but one or all of the bytes.
WriteOutcomes(total) ==
    {WriteErr, WriteOk(0), WriteOk(total - 1), WriteOk(total)}

\* ---------------------------------------------------------------- state
VARIABLES
    reader,      \* Parser.reader: the byte source
    parsed,      \* Parser.parsed
    buf,         \* Parser.buf
    capacity,    \* capacity of Parser.buf
    needs_read,  \* Parser.needs_read
    hit_eof,     \* Parser.hit_eof
    given,       \* the stream and the script the byte source started with
    pulls,       \* what the calls of next returned, in order
    panicked,    \* a call of next panicked
    env,         \* the environment variables of the process
    logger,      \* the Logger try_init has set, None before it
    asked,       \* the last call of Logger::enabled and what it returned
    thread,      \* per thread: where it is in log, and its thread-local BUF
    logged,      \* per thread: the records it has passed to Logger::log
    stdout,      \* the calls of write_vectored on standard out, in order
    stderr       \* the calls of write_vectored on standard error, in order

parser_vars == <<reader, parsed, buf, capacity, needs_read, hit_eof, given,
                 pulls, panicked>>
logger_vars == <<env, logger, asked>>
writer_vars == <<thread, logged, stdout, stderr>>
vars == <<parser_vars, logger_vars, writer_vars>>

Self ==
    [parsed |-> parsed, reader |-> reader, buf |-> buf, capacity |-> capacity,
     needs_read |-> needs_read, hit_eof |-> hit_eof]

\* A parser over a stream and a script of reads, before the first pull.
ParserInit(streams) ==
    \E stream \in streams : \E script \in Scripts(stream) :
        /\ given = [stream |-> stream, script |-> script]
        /\ reader = parse(NewReader(stream, script)).reader
        /\ parsed = parse(NewReader(stream, script)).parsed
        /\ buf = parse(NewReader(stream, script)).buf
        /\ capacity = parse(NewReader(stream, script)).capacity
        /\ needs_read = parse(NewReader(stream, script)).needs_read
        /\ hit_eof = parse(NewReader(stream, script)).hit_eof
        /\ pulls = <<>>
        /\ panicked = FALSE

\* A process that has not initialised the logger.
LoggerInit(envs) ==
    /\ env \in envs
    /\ logger = None
    /\ asked = None

\* No thread has logged and nothing was written.
WriterInit ==
    /\ thread = [t \in Threads |-> [pc |-> "idle", bufs |-> <<>>]]
    /\ logged = [t \in Threads |-> <<>>]
    /\ stdout = <<>>
    /\ stderr = <<>>

Init == ParserInit(Streams) /\ LoggerInit({NoEnv}) /\ WriterInit

\* One call of Parser::next by the consumer of the iterator.
Pull ==
    /\ ~panicked
    /\ Len(pulls) < MaxPulls
    /\ \E r \in {next(Self)} :
           /\ reader' = r.p.reader
           /\ parsed' = r.p.parsed
           /\ buf' = r.p.buf
           /\ capacity' = r.p.capacity
           /\ needs_read' = r.p.needs_read
           /\ hit_eof' = r.p.hit_eof
           /\ pulls' = Append(pulls, r.item)
           /\ panicked' = (r.item.tag = "Panic")
    /\ UNCHANGED <<given, logger_vars, writer_vars>>

Next == Pull

Spec == Init /\ [][Next]_vars

\* try_init: the logger is built from the environment and set; a second
\* call fails with SetLoggerError and changes nothing.
TryInit ==
    /\ logger = None
    /\ logger' = Some(try_init(env))
    /\ UNCHANGED <<env, asked, parser_vars, writer_vars>>

\* A call of Logger::enabled through the log crate.
Enabled ==
    /\ logger # None
    /\ \E metadata \in Metadatas :
           asked' = Some([metadata |-> metadata,
                          enabled |-> enabled(logger[1], metadata)])
    /\ UNCHANGED <<env, logger, parser_vars, writer_vars>>

LoggerNext == TryInit \/ Enabled

\* A process that initialises the logger from its environment and logs.
LoggerSpecInit == ParserInit({<<>>}) /\ LoggerInit(Envs) /\ WriterInit

LoggerSpec == LoggerSpecInit /\ [][LoggerNext]_vars

\* Logger::log up to the call of write_once: a record that is enabled is
\* formatted into the thread's buffer, one that is not is dropped.
Log(t) ==
    /\ thread[t].pc = "idle"
    /\ Len(logged[1]) + Len(logged[2]) < MaxLogs
    /\ \E record \in LogRecords :
           /\ logged' = [logged EXCEPT ![t] = Append(@, record)]
           /\ thread' =
                  IF enabled(logger[1], record)
                  THEN [thread EXCEPT ![t] =
                           [pc |-> "write",
                            bufs |-> format_record(record,
                                logger[1].filter >= LevelFilter_Debug)]]
                  ELSE thread
    /\ UNCHANGED <<stdout, stderr, parser_vars, logger_vars>>

\* The rest of log: write_once on standard out for a request and on standard
\* error for any other record; log_failure panics when it returns an error.
WriteOnce(t) ==
    /\ thread[t].pc = "write"
    /\ \E outcome \in WriteOutcomes(total_len(thread[t].bufs)) :
           LET record == logged[t][Len(logged[t])]
               id     == <<t, Len(logged[t])>>
               to_out == record.target = REQUEST_TARGET
               w      == write_once(IF to_out THEN stdout ELSE stderr, id,
                                    thread[t].bufs, outcome)
           IN  /\ stdout' = IF to_out THEN w.output ELSE stdout
               /\ stderr' = IF to_out THEN stderr ELSE w.output
               /\ thread' = [thread EXCEPT ![t].pc =
                                 IF w.ok THEN "idle" ELSE "panicked"]
    /\ UNCHANGED <<logged, parser_vars, logger_vars>>

WriterNext == \E t \in Threads : Log(t) \/ WriteOnce(t)

\* A process whose logger is initialised from its environment.
WriterSpecInit ==
    /\ ParserInit({<<>>})
    /\ env \in WriterEnvs
    /\ logger = Some(try_init(env))
    /\ asked = None
    /\ WriterInit

\* Threads that log concurrently.
WriterSpec == WriterSpecInit /\ [][WriterNext]_vars

\* ---------------------------------------------------------------- consumer
\* What a `for item in parse(reader)` loop sees: the items next returns up to
\* its first None; a panic ends the loop and is kept as the last element.
RECURSIVE collect(_)
collect(p) ==
    With(next(p), LAMBDA r :
        IF r.item.tag = "None" THEN <<>>
        ELSE IF r.item.tag = "Panic" THEN <<r.item>>
        ELSE <<r.item>> \o collect(r.p))

\* The items of the stream delivered whole, in one read.
Whole(stream) == collect(parse(NewReader(stream, <<>>)))

\* The same of the calls made so far.
Ended(i) == pulls[i].tag \in {"None", "Panic"}
Finished == \E i \in DOMAIN pulls : Ended(i)
FirstEnd == CHOOSE i \in DOMAIN pulls :
                Ended(i) /\ \A j \in 1..(i - 1) : ~Ended(j)
Yielded ==
    IF ~Finished THEN pulls
    ELSE IF pulls[FirstEnd].tag = "Panic" THEN SubSeq(pulls, 1, FirstEnd)
    ELSE SubSeq(pulls, 1, FirstEnd - 1)

\* ---------------------------------------------------------------- claims
ErrCount(script) == Cardinality({i \in DOMAIN script : script[i].err})

\* No read of the byte source fails.
NoIoError == ErrCount(given.script) = 0

\* Every read delivers whole lines: the stream arrives in one read, or the
\* first of two reads ends with a newline.
WholeLines ==
    \/ given.script = <<>>
    \/ /\ Len(given.script) = 1
       /\ ~given.script[1].err
       /\ given.stream[given.script[1].n] = NL

IoItem == ItemErr([line |-> None, kind |-> "Io"])

\* The record of a valid line parsed on its own.
RecordOf(line) == Whole(line \o <<NL>>)[1]

\* C1: for every input and every byte offset at which it is split into two
\* reads, the items the parser yields are the items it yields when the whole
\* input is delivered in one read.
C1_SplitEqualsWhole ==
    (NoIoError /\ Finished) => Yielded = Whole(given.stream)

\* C2: a line that fails to decode is reported as exactly one Err item and
\* the valid line after it is yielded as its own Ok record, also when both
\* lines arrived in the same read.  Stated for reads that deliver whole
\* lines (one read, or two reads split at the end of the first line).
C2_ErrorThenNextLine ==
    \A a \in BadLines, b \in GoodLines :
        (given.stream = Line2(a, b) /\ WholeLines /\ Finished) =>
            /\ Len(Yielded) = 2
            /\ Yielded[1].tag = "Err"
            /\ Yielded[2] = RecordOf(b)

\* C3: no pull panics: each returns a record, a ParseError or the end marker.
C3_NoPanic == \A i \in DOMAIN pulls : pulls[i].tag # "Panic"

FailedRead == ErrCount(reader'.script) < ErrCount(reader.script)

C5_EndIsFinal ==
    \A i \in DOMAIN pulls : \A j \in DOMAIN pulls :
        (i < j /\ pulls[i].tag = "None") => pulls[j].tag \notin {"Ok", "Err"}

\* C6: a blank line between two valid lines yields no item and both valid
\* lines are yielded as records, also when the byte source has reported
\* end-of-stream by the time the blank line is scanned.  Stated for reads
\* that deliver whole lines.
C6_BlankLineBetween ==
    \A a \in GoodLines, w \in BlankLines, b \in GoodLines :
        (given.stream = Line2(a, w) \o b \o <<NL>> /\ WholeLines /\ Finished)
            => Yielded = <<RecordOf(a), RecordOf(b)>>

\* C7: a line `key=` with no value before the newline is reported by the
\* first pull as an error whose raw line is that line, and the second pull
\* yields the record of the valid line after it.  Stated for reads that
\* deliver whole lines.
C7_KeyWithoutValue ==
    \A k \in BareKeys, b \in GoodLines \cup {LineTs} :
        (given.stream = Line2(k \o <<EQ>>, b) /\ WholeLines /\ Len(pulls) >= 2)
            => /\ pulls[1].tag = "Err"
               /\ pulls[1].err.line = Some(k \o <<EQ>>)
               /\ pulls[2] = RecordOf(b)

HasValue(item, key, kind, text) ==
    /\ item.tag = "Ok"
    /\ key \in DOMAIN item.record.key_values
    /\ item.record.key_values[key] = [kind |-> kind, text |-> text]

\* C8: an unquoted value that is the last token of a newline-terminated line
\* ends at the newline (`ok=true` gives Bool(true)), and the line after it is
\* parsed as a separate record.  Stated for reads that deliver whole lines.
C8_NakedValueEndsAtNewline ==
    /\ (given.stream = ScenarioB /\ WholeLines /\ Finished) =>
          /\ Len(Yielded) = 1
          /\ HasValue(Yielded[1], TEXT_foo, "String", TEXT_bar)
          /\ HasValue(Yielded[1], TEXT_count, "Int", TEXT_42)
          /\ HasValue(Yielded[1], TEXT_ratio, "Float", TEXT_3_14)
          /\ HasValue(Yielded[1], TEXT_ok, "Bool", TEXT_true)
    /\ (given.stream = ScenarioB2 /\ WholeLines /\ Finished) =>
          /\ Len(Yielded) = 2
          /\ HasValue(Yielded[1], TEXT_ok, "Bool", TEXT_true)
          /\ HasValue(Yielded[2], TEXT_foo, "String", TEXT_bar)

\* C9: the timestamp of a record is the UTC instant of the date and time of
\* its ts value, the six-digit field taken as microseconds: `.624447` of
\* 2021-02-23T13:15:48 is 624447000 ns past the second (day 18681 of the
\* epoch, second 47748 of the day).
C9_TimestampMicroseconds ==
    \A i \in DOMAIN pulls :
        /\ (given.stream = ScenarioA /\ pulls[i].tag = "Ok") =>
              pulls[i].record.timestamp =
                  Some([days |-> 18681, sod |-> 47748, nanos |-> 624447000])
        /\ (given.stream = ScenarioEpoch /\ pulls[i].tag = "Ok") =>
              pulls[i].record.timestamp =
                  Some([days |-> 0, sod |-> 1, nanos |-> 1000])

\* C10: once the byte source has returned 0 the end-of-stream flag stays set
\* and no later pull calls read on the byte source.
C10_NoReadAfterEof ==
    [][ reader.zero_seen =>
            (hit_eof /\ hit_eof' /\ reader'.calls = reader.calls) ]_vars

\* The bytes of the stream no item has consumed yet, in stream order: the
\* buffer from the offset on, then what the byte source still holds.
Unconsumed == Slice(buf, parsed, Len(buf)) \o reader.stream

Range(s) == {s[i] : i \in DOMAIN s}

\* The bytes the step has consumed: what was unconsumed before it and is
\* not after it.
Consumed == SubSeq(Unconsumed, 1, Len(Unconsumed) - Len(Unconsumed'))

IsSuffix(s, t) ==
    /\ Len(s) <= Len(t)
    /\ s = SubSeq(t, Len(t) - Len(s) + 1, Len(t))

\* The item the step's pull returned.
Pulled(tag) ==
    /\ Len(pulls') = Len(pulls) + 1
    /\ pulls'[Len(pulls')].tag = tag

\* C11: when no read fails, each pull makes finitely many reads (every read
\* of a pull delivers at least one byte, but for one read of 0 bytes that
\* ends the pull), and a run of pulls that has stopped has yielded the end
\* marker.
C11_PullsReachTheEnd ==
    NoIoError =>
        /\ reader.calls <= Len(given.stream) + Len(pulls)
        /\ panicked => \E i \in DOMAIN pulls : pulls[i].tag = "None"

\* C12: the consumed offset never exceeds the length of the buffer.
C12_ParsedWithinBuffer == parsed <= Len(buf)

\* An error with a line was skipped and the offset is at the end of the
\* buffer.
C12_Witness ==
    /\ pulls # <<>>
    /\ pulls[Len(pulls)].tag = "Err"
    /\ pulls[Len(pulls)].err.line # None
    /\ parsed > 0
    /\ parsed = Len(buf)

\* C13: the raw line of a decode error is the offending line alone: it holds
\* no newline, and when a line that fails to decode is followed by a valid
\* line the first pull reports the failing line and leaves the offset at its
\* end.  The second part is stated for reads that deliver whole lines.
C13_ErrorLineIsOffendingLine ==
    /\ \A i \in DOMAIN pulls :
           (pulls[i].tag = "Err" /\ pulls[i].err.line # None) =>
               NL \notin Range(pulls[i].err.line[1])
    /\ \A a \in BadLines, b \in GoodLines :
           (given.stream = Line2(a, b) /\ WholeLines /\ Len(pulls) = 1) =>
               /\ pulls[1].tag = "Err"
               /\ pulls[1].err.line = Some(a)
               /\ parsed = Len(a)

\* C14: the bytes a pull that yields a record has consumed hold a `=`, the
\* mark of a key=value token, and a stream of spaces, tabs and newlines only
\* never yields a record.
C14_RecordHasAField ==
    [][ Pulled("Ok") => /\ EQ \in Range(Consumed)
                        /\ given.stream \notin BlankOnly ]_vars

\* A blank line was consumed without an item and the line after it gave a
\* record.
C14_Witness ==
    /\ given.stream \in BlankBetween
    /\ Len(pulls) = 2
    /\ pulls[1].tag = "Ok"
    /\ pulls[2].tag = "Ok"

\* C15: a pull adds one item to those yielded, and what it leaves unconsumed
\* is a suffix of what was unconsumed before it, so the bytes of successive
\* items are disjoint ranges in stream order; a record consumes at least one
\* byte, and the raw line of a decode error is the end of the bytes its pull
\* consumed.
C15_ItemsConsumeDisjointRanges ==
    [][ /\ Len(pulls') = Len(pulls) + 1
        /\ IsSuffix(Unconsumed', Unconsumed)
        /\ Pulled("Ok") => Consumed # <<>>
        /\ (Pulled("Err") /\ pulls'[Len(pulls')].err.line # None) =>
               /\ pulls'[Len(pulls')].err.line[1] # <<>>
               /\ IsSuffix(pulls'[Len(pulls')].err.line[1], Consumed) ]_vars

\* A decode error and then a record were yielded by successive pulls.
C15_Witness ==
    /\ given.stream \in ErrorPairs
    /\ Len(pulls) >= 2
    /\ pulls[1].tag = "Err"
    /\ pulls[2].tag = "Ok"

\* C16: an error carries a raw line exactly when its kind is not Io.
C16_LineIffNotIo ==
    \A i \in DOMAIN pulls :
        pulls[i].tag = "Err" =>
            (pulls[i].err.line # None <=> pulls[i].err.kind # "Io")

\* An Io error and a decode error were both yielded.
C16_Witness ==
    \E i \in DOMAIN pulls : \E j \in DOMAIN pulls :
        /\ pulls[i] = IoItem
        /\ pulls[j].tag = "Err"
        /\ pulls[j].err.kind # "Io"
        /\ pulls[j].err.line # None

ReservedKeys == {KEY_ts, KEY_lvl, KEY_msg, KEY_target, KEY_module, KEY_file}

\* The stream is `line` and a newline, delivered in one read, and the
\* sequence has ended.
WholeLine(line) ==
    /\ given.stream = line \o <<NL>>
    /\ given.script = <<>>
    /\ Finished

\* C17: of a key that occurs more than once in a line the last occurrence
\* wins: a reserved key's field holds the last value, a generic key has one
\* entry in the map, holding the last value; and no reserved key is ever an
\* entry of the map.
C17_LastOccurrenceWins ==
    /\ \A i \in DOMAIN pulls :
           pulls[i].tag = "Ok" =>
               DOMAIN pulls[i].record.key_values \cap ReservedKeys = {}
    /\ WholeLine(LineDupMsg) =>
           Yielded = <<ItemOk([Record_empty EXCEPT !.msg = <<98>>])>>
    /\ WholeLine(LineDupLvl) =>
           Yielded = <<ItemOk([Record_empty EXCEPT !.level = "Warn"])>>
    /\ WholeLine(LineDupKey) =>
           Yielded = <<ItemOk([Record_empty EXCEPT !.key_values =
               [k \in {<<107>>, <<106>>} |->
                   IF k = <<107>> THEN [kind |-> "String", text |-> <<120>>]
                   ELSE [kind |-> "Int", text |-> <<50>>]]])>>
    /\ WholeLine(LineDupMixed) =>
           Yielded = <<ItemOk([Record_empty EXCEPT
               !.msg = <<98>>,
               !.key_values =
                   [k \in {<<107>>} |-> [kind |-> "Int", text |-> <<50>>]]])>>

\* A line that names a generic key and a reserved key twice was yielded as
\* a record.
C17_Witness ==
    /\ WholeLine(LineDupMixed)
    /\ pulls[1].tag = "Ok"
    /\ DOMAIN pulls[1].record.key_values = {<<107>>}

\* The classification as claimed: an optional sign and digits is an Int, an
\* optional sign and digits around one `.` is a Float.
Unsigned(t) ==
    IF t # <<>> /\ t[1] \in {PLUS, MINUS} THEN Slice(t, 1, Len(t)) ELSE t

IsSignedDigits(t) == AllDigits(Unsigned(t))

IsDecimalSequence(t) ==
    \E i \in DOMAIN Unsigned(t) :
        /\ Unsigned(t)[i] = DOT
        /\ Len(Unsigned(t)) > 1
        /\ \A j \in DOMAIN Unsigned(t) : j # i => IsDigit(Unsigned(t)[j])

ClaimedKind(t) ==
    IF t \in {TEXT_true, TEXT_false} THEN "Bool"
    ELSE IF IsSignedDigits(t) THEN "Int"
    ELSE IF IsDecimalSequence(t) THEN "Float"
    ELSE "String"

\* The record of the line v="text" with the value given.
ValueRecord(kind, text) ==
    ItemOk([Record_empty EXCEPT !.key_values =
                [k \in {<<118>>} |-> [kind |-> kind, text |-> text]]])

\* C18 (as claimed): `true` and `false` give Bool, a digit sequence with an
\* optional sign gives Int, a decimal sequence gives Float, and every other
\* text gives String.
C18_ValueInference ==
    \A e \in ValueExamples :
        WholeLine(ValueLine(e.text)) =>
            /\ Len(Yielded) = 1
            /\ Yielded[1].tag = "Ok"
            /\ Yielded[1].record.key_values[<<118>>].kind = ClaimedKind(e.text)

\* C18 (amended): inference never fails and tries Bool, Int, Float, String in
\* that order: `true` and `false` give Bool; an optional sign and digits
\* within the range of i64 give Int; what the float parser accepts gives
\* Float, which besides decimal numbers are digit sequences beyond the range
\* of i64, exponent forms (`1e5`), `inf` and `NaN`; every other text gives
\* String holding the text unchanged.
C18_ValueInferenceOrder ==
    \A e \in ValueExamples :
        WholeLine(ValueLine(e.text)) =>
            Yielded = <<ValueRecord(e.kind, e.canon)>>

\* A text that is no decimal sequence was yielded as a Float.
C18_Witness ==
    \E e \in ValueExamples :
        /\ WholeLine(ValueLine(e.text))
        /\ e.kind = "Float"
        /\ ~IsDecimalSequence(e.text)
        /\ Yielded = <<ValueRecord("Float", e.text)>>

\* The last call of Logger::enabled was for a record of target `request`
\* or `panic`.
AskedAlwaysLogged ==
    /\ asked # None
    /\ asked[1].metadata.target \in {REQUEST_TARGET, TARGET_panic}

NamedLevel(value) ==
    IF value = None THEN None ELSE LevelFilter_from_str(value[1])

\* C20: the severity filter of the logger is the level LOG names if LOG is
\* set to a valid level, else the level LOG_LEVEL names if it is set to a
\* valid level, else Trace if TRACE is set, else Debug if DEBUG is set, else
\* Info.
C20_MaxLevelFromEnv ==
    logger # None =>
        logger[1].filter =
            IF NamedLevel(env.LOG) # None THEN NamedLevel(env.LOG)[1]
            ELSE IF NamedLevel(env.LOG_LEVEL) # None
            THEN NamedLevel(env.LOG_LEVEL)[1]
            ELSE IF env.TRACE # None THEN LevelFilter_Trace
            ELSE IF env.DEBUG # None THEN LevelFilter_Debug
            ELSE LevelFilter_Info

\* The calls of write_vectored on a destination for the k-th record thread t
\* logged.
WritesOf(output, t, k) == {i \in DOMAIN output : output[i].id = <<t, k>>}

\* The write of the k-th record of thread t is still to come.
Pending(t, k) == k = Len(logged[t]) /\ thread[t].pc = "write"

IsPrefix(s, t) == Len(s) <= Len(t) /\ s = SubSeq(t, 1, Len(s))

\* C21: a record that is not enabled is never written; a record that is
\* enabled and whose log call is over was written by exactly one call of
\* write_vectored, on standard out for a request and on standard error
\* otherwise, offered whole; when the call failed or accepted fewer bytes the
\* thread has panicked and that record was its last; and the writes of a
\* thread on a destination are in the order of its log calls.
C21_OneWritePerRecord ==
    /\ \A t \in Threads : \A k \in DOMAIN logged[t] :
           LET record == logged[t][k]
               whole  == concat(format_record(record,
                             logger[1].filter >= LevelFilter_Debug))
               dest   == IF record.target = REQUEST_TARGET THEN stdout
                         ELSE stderr
               other  == IF record.target = REQUEST_TARGET THEN stderr
                         ELSE stdout
           IN  /\ WritesOf(other, t, k) = {}
               /\ (~enabled(logger[1], record) \/ Pending(t, k)) =>
                      WritesOf(dest, t, k) = {}
               /\ (enabled(logger[1], record) /\ ~Pending(t, k)) =>
                      /\ Cardinality(WritesOf(dest, t, k)) = 1
                      /\ \A i \in WritesOf(dest, t, k) :
                             /\ IsPrefix(dest[i].bytes, whole)
                             /\ (dest[i].ok /\ dest[i].bytes = whole)
                                    \/ (thread[t].pc = "panicked"
                                           /\ k = Len(logged[t]))
    /\ \A output \in {stdout, stderr} :
           \A i \in DOMAIN output : \A j \in DOMAIN output :
               (i < j /\ output[i].id[1] = output[j].id[1]) =>
                   output[i].id[2] < output[j].id[2]

\* Both threads have written, a request went to standard out, and a write
\* that accepted fewer bytes than the record has made its thread panic.
C21_Witness ==
    /\ \E i \in DOMAIN stdout : stdout[i].ok
    /\ \E i \in DOMAIN stderr : \E j \in DOMAIN stdout :
           stderr[i].id[1] # stdout[j].id[1]
    /\ \E t \in Threads :
           /\ thread[t].pc = "panicked"
           /\ \E i \in DOMAIN stderr :
                  /\ stderr[i].id = <<t, Len(logged[t])>>
                  /\ stderr[i].ok
                  /\ stderr[i].bytes # <<>>
                  /\ Len(stderr[i].bytes) <
                         total_len(format_record(logged[t][Len(logged[t])],
                                                 FALSE))

\* The stream arrives in two reads that do not fail.
TwoReads == Len(given.script) = 1 /\ ~given.script[1].err

\* What the first of the two reads delivers.
FirstChunk == Slice(given.stream, 0, given.script[1].n)

\* C22: when the bytes buffered for a line hold the start of a key and no
\* `=`, the pull yields nothing for them: it does not panic and it reads
\* from the byte source again before it returns.
C22_KeyWithoutEqIsIncomplete ==
    (/\ TwoReads
     /\ Range(FirstChunk) \cap {EQ, NL} = {}
     /\ eat_space(FirstChunk) # <<>>
     /\ Len(pulls) >= 1) =>
        /\ pulls[1].tag # "Panic"
        /\ reader.calls >= 2

\* The unconsumed bytes of the buffer.
Buffered == Slice(buf, parsed, Len(buf))

\* C23: a pull whose buffer holds a complete valid line at the consumed
\* offset yields the record of that line without a call of read.
C23_ReadOnlyWhenNeeded ==
    [][ \A g \in GoodLines :
            (IsPrefix(g \o <<NL>>, Buffered) /\ pulls' # pulls) =>
                /\ pulls' = Append(pulls, RecordOf(g))
                /\ reader'.calls = reader.calls ]_vars

\* What parse_line returns for the bytes of the first read.
FirstScan ==
    parse_line(fill_buf(parse(NewReader(given.stream, given.script))).p)

\* One valid line and its newline.
CompleteLines == {a \o <<NL>> : a \in DupLines} \cup {ScenarioA}

\* The first of two reads ends in the line, and parse_line reports Incomplete
\* for it.
IncompleteFirst ==
    /\ given.stream \in CompleteLines
    /\ TwoReads
    /\ FirstScan.tag = "None"

\* C24: when parse_line reports Incomplete nothing is consumed: the retry
\* after the second read scans the line from its start, so the record
\* yielded is the record of the whole line, with the fields scanned before
\* the end of the first read.
C24_IncompleteConsumesNothing ==
    /\ IncompleteFirst => FirstScan.parsed = 0
    /\ (IncompleteFirst /\ Finished) =>
           /\ Yielded = Whole(given.stream)
           /\ Len(Yielded) = 1
           /\ Yielded[1].tag = "Ok"

\* The first read ended after the `=` of the second field of a line, and the
\* record yielded holds both fields.
C24_Witness ==
    /\ IncompleteFirst
    /\ given.stream = LineDupKey \o <<NL>>
    /\ given.script[1].n = 8
    /\ Finished
    /\ DOMAIN Yielded[1].record.key_values = {<<107>>, <<106>>}

\* The bytes the byte source delivers in the step.
Delivered ==
    SubSeq(reader.stream, 1, Len(reader.stream) - Len(reader'.stream))

\* C25: in a pull that reads once, fill_buf leaves in the buffer the bytes
\* that were unconsumed, in order, followed by the bytes the read delivered,
\* with the offset at 0; when the read fails the buffer holds the unconsumed
\* bytes alone, the offset is 0 and the end-of-stream flag is as it was.
C25_FillKeepsUnconsumed ==
    [][ reader'.calls = reader.calls + 1 =>
            /\ buf' = Buffered \o Delivered
            /\ fill_buf(Self).p.buf = buf'
            /\ fill_buf(Self).p.parsed = 0
            /\ FailedRead => /\ Delivered = <<>>
                             /\ parsed' = 0
                             /\ hit_eof' = hit_eof ]_vars

\* The second pull found the start of the second line in the buffer, read
\* the rest of it and yielded its record: the buffer holds that line alone.
C25_Witness ==
    \E a \in GoodLines, b \in GoodLines :
        /\ given.stream = Line2(a, b)
        /\ TwoReads
        /\ given.script[1].n > Len(a) + 1
        /\ Len(pulls) = 2
        /\ reader.calls = 2
        /\ buf = b \o <<NL>>
        /\ pulls[2].tag = "Ok"

\* C26: the read of fill_buf has room: the buffer is never longer than its
\* capacity, the capacity fill_buf reads with exceeds the bytes it keeps, is
\* never lowered and is at least doubled when the kept bytes fill the buffer;
\* a read returns 0 only when the byte source has nothing left; and a line
\* longer than the initial capacity is yielded whole as one record.
C26_ReadHasRoom ==
    /\ Len(buf) <= capacity
    /\ fill_buf(Self).p.capacity > Len(Buffered)
    /\ fill_buf(Self).p.capacity >= capacity
    /\ Len(Buffered) = capacity => fill_buf(Self).p.capacity >= 2 * capacity
    /\ reader.zero_seen => reader.stream = <<>>
    /\ (given.stream = LongLine /\ Finished) =>
           Yielded = <<ItemOk([Record_empty EXCEPT !.key_values =
               [k \in {<<107>>} |-> [kind |-> "String", text |-> <<118>>]]])>>

\* The line longer than the initial capacity was buffered whole in a buffer
\* of twice the capacity and yielded.
C26_Witness ==
    /\ given.stream = LongLine
    /\ capacity = 2 * INITIAL_CAPACITY
    /\ Len(buf) = Len(LongLine)
    /\ pulls # <<>>
    /\ pulls[1].tag = "Ok"

\* The sequence has yielded its end marker.
EndReached == \E i \in DOMAIN pulls : pulls[i].tag = "None"

\* The last item yielded before the end of the sequence.
LastYielded == Yielded[Len(Yielded)]

\* C27: a last line without a newline whose last value runs to the end of
\* the buffer is complete once the byte source has reported the end of the
\* stream: the last pull before the end marker yields a record that holds
\* the value.
C27_FinalLineWithoutNewline ==
    (NoIoError /\ EndReached /\ given.stream \in FinalLines) =>
        /\ Yielded # <<>>
        /\ given.stream = LineFooBar =>
               HasValue(LastYielded, TEXT_foo, "String", TEXT_bar)
        /\ given.stream = LineKvNaked =>
               HasValue(LastYielded, <<110>>, "Int", <<49>>)
        /\ given.stream = LineMsgX =>
               /\ LastYielded.tag = "Ok"
               /\ LastYielded.record.msg # <<>>

\* The last value arrived in a second read, was Incomplete until the byte
\* source returned 0, and was then yielded.
C27_Witness ==
    /\ given.stream = LineKvNaked
    /\ TwoReads
    /\ given.script[1].n = 8
    /\ hit_eof
    /\ Len(pulls) = 1
    /\ pulls[1].tag = "Ok"
    /\ reader.calls = 3

\* C28: a quoted value ends at the first quote with an even running count
\* that a space or a newline follows; the quote after `b` in
\* msg="a "b" c=d" has an odd count and does not end the value although a
\* space follows it: the value is `a "b" c=d`.
C28_QuotedValueEndsAtEvenQuote ==
    WholeLine(LineInnerQuotes) =>
        Yielded = <<ItemOk([Record_empty EXCEPT !.msg = TEXT_inner_quotes])>>

\* C29: a ts value of any 4-digit year decodes to the instant of its
\* proleptic-Gregorian UTC date and time: 1969-12-31T23:59:59 is one second
\* before the epoch (second 86399 of day -1), 9999-12-31T23:59:59 is second
\* 86399 of day 2932896.
C29_TimestampAnyYear ==
    /\ WholeLine(LineTs1969) =>
          Yielded = <<ItemOk([Record_empty EXCEPT !.timestamp =
                         Some([days |-> -1, sod |-> 86399, nanos |-> 0])])>>
    /\ WholeLine(LineTs9999) =>
          Yielded = <<ItemOk([Record_empty EXCEPT !.timestamp =
                         Some([days |-> 2932896, sod |-> 86399, nanos |-> 0])])>>

\* C30: the pull that yields the end marker leaves no non-blank byte of the
\* stream unconsumed: what the buffer holds from the offset on, and what the
\* byte source still holds, is spaces and newlines only.
C30_EndLeavesNothing ==
    [][ (pulls' # pulls /\ pulls'[Len(pulls')].tag = "None") =>
            \A b \in Range(Unconsumed') : b \in {SP, NL} ]_vars

\* C31: the value of a quoted token holds neither of its delimiting quotes:
\* msg="x" followed by a space, by a newline or by the end of the stream
\* yields one record whose msg is `x`.
C31_QuotedValueWithoutQuotes ==
    \A t \in QuotedEnds :
        (given.stream = LineMsgX \o t /\ given.script = <<>> /\ Finished) =>
            Yielded = <<ItemOk([Record_empty EXCEPT !.msg = <<120>>])>>

====
